---------------------------- MODULE Spec2Model ----------------------------
(***************************************************************************)
(* Model of npm-most-depended-upon.                                        *)
(*                                                                         *)
(*   src/main.py: the dependency-map pipeline.  Every CLI mode reads one   *)
(*   JSON file and writes one; the files are the state.                    *)
(*   src/download-package-index-chunked.py: NpmRegistry, the paginated     *)
(*   downloader with its backoff()/backon() page-size control.             *)
(*                                                                         *)
(* A Python dict keeps insertion order, so a map is a sequence of          *)
(* records (key, value) with distinct keys.  list(set) has no defined      *)
(* order, so a list built from a set is kept as the set.                   *)
(***************************************************************************)
EXTENDS Integers, Sequences, FiniteSets, TLC

(***************************************************************************)
(* Bounds of the model.                                                    *)
(***************************************************************************)
\* longest dependency list of one package
MaxDeps == 2
\* most dependency edges in one dependency map
MaxEdges == 4
\* largest --packages-per-request
MaxPackagesPerRequest == 5
\* most packages in the registry
MaxRegistry == 6
\* most failed requests in one download
MaxFailures == 2
\* largest target page size of a backoff()/backon() sequence
MaxTarget == 40

(***************************************************************************)
(* Names.  Names lists every name in ascending code-point order            *)
(* (upper case sorts before lower case); PackageNames are the keys of the  *)
(* dependency map, in file order.  "ghost" is never a key.                 *)
(***************************************************************************)
Names == <<"A", "B", "C", "D", "ghost">>

PackageNames == <<"A", "B", "C", "D">>

NameSet == {Names[i] : i \in 1..Len(Names)}

VARIABLES
    dependency_map,      \* --in-path of --build-dependant-map
    dependant_map,       \* its --out-path; --in-path of the next two modes
    transitive_map,      \* --out-path of --build-transitive-dependant-map
    direct_ranked,       \* --out-path of --count-direct
    transitive_ranked,   \* --out-path of --count-transitive
    written,             \* the files written so far
    registry,            \* number of packages the registry holds (names 1..registry)
    target,              \* self.target_packages_per_request
    current,             \* self.current_packages_per_request
    initial_package,     \* --initial-package (0 is '')
    last,                \* self.last_downloaded_package (0 is '')
    limit,               \* params['limit'] of the running get_next_page
    page,                \* page['rows'] of download_package_index
    saved,               \* the page files written by save_page_content
    failures,            \* failed requests so far
    pc                   \* position in the downloader

gvars == <<dependency_map, dependant_map, transitive_map, direct_ranked,
           transitive_ranked, written>>

dvars == <<registry, target, current, initial_package, last, limit, page,
           saved, failures, pc>>

vars == <<dependency_map, dependant_map, transitive_map, direct_ranked,
          transitive_ranked, written, registry, target, current,
          initial_package, last, limit, page, saved, failures, pc>>

(***************************************************************************)
(* Helpers on maps (ordered dicts).                                        *)
(***************************************************************************)
Keys(m) == {m[i].key : i \in 1..Len(m)}

HasKey(m, k) == \E i \in 1..Len(m) : m[i].key = k

Lookup(m, k) == m[CHOOSE i \in 1..Len(m) : m[i].key = k].value

(***************************************************************************)
(* The dependency maps of the model: one entry per package, in file order, *)
(* each with a list of at most MaxDeps dependency names, at most MaxEdges  *)
(* in all.  A list is list(dependencies.keys()) of create_dependency_map:  *)
(* its names are distinct, in any order, and may be the package itself or  *)
(* a name that is no package.                                              *)
(***************************************************************************)
DepLists ==
    UNION {{d \in [1..n -> NameSet] :
                \A i, j \in 1..n : d[i] = d[j] => i = j} : n \in 0..MaxDeps}

\* the lists that fit when `used` edges are taken already
DepListsWithin(used) == {d \in DepLists : used + Len(d) <= MaxEdges}

\* dict(zip(PackageNames, lists))
DependencyMapOf(lists) ==
    [i \in 1..Len(lists) |-> [key |-> PackageNames[i], value |-> lists[i]]]

(***************************************************************************)
(* build_inverse_dependency_map: a defaultdict(set), filled in the order   *)
(* the dependency map is iterated; a key is created at the first           *)
(* occurrence of a dependency name, whatever that name is.                 *)
(***************************************************************************)
\* the slip inverse_dependency_map[dependency] = {package}
AddDependantOverwrites(inv, dependency, package) ==
    IF HasKey(inv, dependency)
    THEN [i \in 1..Len(inv) |->
            IF inv[i].key = dependency
            THEN [key |-> dependency, value |-> {package}]
            ELSE inv[i]]
    ELSE Append(inv, [key |-> dependency, value |-> {package}])

\* inverse_dependency_map[dependency].add(package)
AddDependant(inv, dependency, package) ==
    IF HasKey(inv, dependency)
    THEN [i \in 1..Len(inv) |->
            IF inv[i].key = dependency
            THEN [key |-> dependency, value |-> inv[i].value \cup {package}]
            ELSE inv[i]]
    ELSE Append(inv, [key |-> dependency, value |-> {package}])

\* for dependency in dependencies: ...
RECURSIVE AddDependencies(_, _, _)
AddDependencies(inv, package, dependencies) ==
    IF dependencies = <<>> THEN inv
    ELSE AddDependencies(AddDependant(inv, Head(dependencies), package),
                         package, Tail(dependencies))

\* for package, dependencies in dependency_map.items(): ...
RECURSIVE InverseFrom(_, _)
InverseFrom(inv, items) ==
    IF items = <<>> THEN inv
    ELSE InverseFrom(AddDependencies(inv, Head(items).key, Head(items).value),
                     Tail(items))

build_inverse_dependency_map(dm) == InverseFrom(<<>>, dm)

(***************************************************************************)
(* build_transitive_dependant_map: nx.DiGraph(inverse_dependency_map) has  *)
(* an edge key -> dependant for every list member; nx.descendants is the   *)
(* set of nodes a breadth-first search from the source reaches, without    *)
(* the source.                                                             *)
(***************************************************************************)
\* graph.successors(n) of nx.DiGraph(inv)
Successors(inv, n) == IF HasKey(inv, n) THEN Lookup(inv, n) ELSE {}

RECURSIVE Bfs(_, _, _)
Bfs(inv, seen, frontier) ==
    IF frontier = {} THEN seen
    ELSE LET next == (UNION {Successors(inv, n) : n \in frontier}) \ seen
         IN  Bfs(inv, seen \cup next, next)

\* the slip of taking the successors for the descendants
DescendantsDirectOnly(inv, source) == Successors(inv, source) \ {source}

\* the slip of keeping every node the search reaches, the source included
DescendantsKeepSource(inv, source) ==
    Bfs(inv, Successors(inv, source), Successors(inv, source))

Descendants(inv, source) == Bfs(inv, {source}, {source}) \ {source}

build_transitive_dependant_map(inv) ==
    [i \in 1..Len(inv) |->
        [key |-> inv[i].key, value |-> Descendants(inv, inv[i].key)]]

(***************************************************************************)
(* count_all_dependants and the ranking of --count-direct and              *)
(* --count-transitive: sorted(..., key=lambda x: x[1], reverse=True) is a  *)
(* stable sort on the count alone, so entries of equal count keep the      *)
(* order of the input map.                                                 *)
(***************************************************************************)
\* (k, len(v))
EntryCount(e) == [key |-> e.key, value |-> Cardinality(e.value)]

\* the slip of an off-by-one count
count_all_dependants_less_one(tm) ==
    [i \in 1..Len(tm) |->
        [key |-> tm[i].key,
         value |-> IF tm[i].value = {} THEN 0
                   ELSE Cardinality(tm[i].value) - 1]]

count_all_dependants(tm) == [i \in 1..Len(tm) |-> EntryCount(tm[i])]

MaxCount(s) ==
    IF s = <<>> THEN 0
    ELSE CHOOSE c \in {s[i].value : i \in 1..Len(s)} :
            \A i \in 1..Len(s) : s[i].value <= c

HasCount(c, e) == e.value = c

RECURSIVE StableFrom(_, _)
StableFrom(s, c) ==
    LET same == SelectSeq(s, LAMBDA e : HasCount(c, e))
    IN  IF c = 0 THEN same ELSE same \o StableFrom(s, c - 1)

\* the slip of leaving reverse=True out
SortedAscending(s) ==
    LET desc == StableFrom(s, MaxCount(s))
    IN  [i \in 1..Len(desc) |-> desc[Len(desc) + 1 - i]]

\* sorted(s, key=lambda x: x[1], reverse=True)
SortedByCountReverse(s) == StableFrom(s, MaxCount(s))

(***************************************************************************)
(* The CLI modes of main(), one action each.                               *)
(***************************************************************************)
GInit ==
    /\ \E a \in DepLists :
        \E b \in DepListsWithin(Len(a)) :
            \E c \in DepListsWithin(Len(a) + Len(b)) :
                \E d \in DepListsWithin(Len(a) + Len(b) + Len(c)) :
                    dependency_map = DependencyMapOf(<<a, b, c, d>>)
    /\ dependant_map = <<>>
    /\ transitive_map = <<>>
    /\ direct_ranked = <<>>
    /\ transitive_ranked = <<>>
    /\ written = {}

\* --build-dependant-map
BuildDependantMap ==
    /\ "dependant" \notin written
    /\ dependant_map' = build_inverse_dependency_map(dependency_map)
    /\ written' = written \cup {"dependant"}
    /\ UNCHANGED <<dependency_map, transitive_map, direct_ranked,
                   transitive_ranked>>
    /\ UNCHANGED dvars

\* --build-transitive-dependant-map
BuildTransitiveDependantMap ==
    /\ "dependant" \in written
    /\ "transitive" \notin written
    /\ transitive_map' = build_transitive_dependant_map(dependant_map)
    /\ written' = written \cup {"transitive"}
    /\ UNCHANGED <<dependency_map, dependant_map, direct_ranked,
                   transitive_ranked>>
    /\ UNCHANGED dvars

\* --count-direct
CountDirect ==
    /\ "dependant" \in written
    /\ "direct" \notin written
    /\ direct_ranked' = SortedByCountReverse(
            [i \in 1..Len(dependant_map) |-> EntryCount(dependant_map[i])])
    /\ written' = written \cup {"direct"}
    /\ UNCHANGED <<dependency_map, dependant_map, transitive_map,
                   transitive_ranked>>
    /\ UNCHANGED dvars

\* --count-transitive
CountTransitive ==
    /\ "transitive" \in written
    /\ "counts" \notin written
    /\ transitive_ranked' =
            SortedByCountReverse(count_all_dependants(transitive_map))
    /\ written' = written \cup {"counts"}
    /\ UNCHANGED <<dependency_map, dependant_map, transitive_map,
                   direct_ranked>>
    /\ UNCHANGED dvars

(***************************************************************************)
(* NpmRegistry: the page-size control.  math.ceil(c * 1.2) is the ceiling  *)
(* of 6c/5 (the float product is exact enough for every c below 5000).     *)
(***************************************************************************)
Min(a, b) == IF a <= b THEN a ELSE b

Max(a, b) == IF a >= b THEN a ELSE b

\* the slip of leaving the min() with the target out
backonUncapped(c, t) == IF c < t THEN (6 * c + 4) \div 5 ELSE c

backon(c, t) == IF c < t THEN Min(t, (6 * c + 4) \div 5) ELSE c

backoff(c, t) == IF c >= t \div 10 THEN Max(3, c \div 2) ELSE c

(***************************************************************************)
(* The registry answers GET _all_docs?limit=l&start_key=k with the rows    *)
(* from the first key >= k on, at most l of them; its packages are 1..n    *)
(* in name order and '' (0) sorts before all of them.                      *)
(***************************************************************************)
Response(n, start_key, l) ==
    LET first == Max(start_key, 1)
        count == Min(l, Max(0, n - first + 1))
    IN  [rows |-> [i \in 1..count |-> first + i - 1], offset |-> first - 1]

\* save_page_content: json.dump(page) to offset-<offset>.json, replacing the file
save_page_content(files, offset, rows) ==
    SelectSeq(files, LAMBDA f : f.offset # offset)
        \o <<[offset |-> offset, rows |-> rows]>>

(***************************************************************************)
(* download_package_index and get_next_page, one action per loop test and  *)
(* per request attempt.                                                    *)
(***************************************************************************)
GIdle ==
    /\ dependency_map = <<>>
    /\ dependant_map = <<>>
    /\ transitive_map = <<>>
    /\ direct_ranked = <<>>
    /\ transitive_ranked = <<>>
    /\ written = {}

DIdle ==
    /\ registry = 0
    /\ target = 1
    /\ current = 1
    /\ initial_package = 0
    /\ last = 0
    /\ limit = 0
    /\ page = <<>>
    /\ saved = <<>>
    /\ failures = 0
    /\ pc = "idle"

\* NpmRegistry(...) and the first line of download_package_index
DInit ==
    /\ registry \in 0..MaxRegistry
    /\ target \in 1..MaxPackagesPerRequest
    /\ current = target
    /\ initial_package \in 0..registry
    /\ last = initial_package
    /\ limit = 0
    /\ page = <<1, 2>>
    /\ saved = <<>>
    /\ failures = 0
    /\ pc = "loop"

\* while len(page['rows']) > 1: get_next_page() builds params
EnterGetNextPage ==
    /\ pc = "loop"
    /\ Len(page) > 1
    /\ limit' = current
    /\ pc' = "request"
    /\ UNCHANGED <<registry, target, current, initial_package, last, page,
                   saved, failures>>
    /\ UNCHANGED gvars

\* requests.get raises: logged, backoff(), the same params are sent again
RequestFails ==
    /\ pc = "request"
    /\ failures < MaxFailures
    /\ failures' = failures + 1
    /\ current' = backoff(current, target)
    /\ UNCHANGED <<registry, target, initial_package, last, limit, page,
                   saved, pc>>
    /\ UNCHANGED gvars

\* requests.get answers with no row: page['rows'][0] raises IndexError
\* before success is set, so backoff() and another attempt
RequestAnswersEmpty ==
    /\ pc = "request"
    /\ Response(registry, last, limit).rows = <<>>
    /\ current' = backoff(current, target)
    /\ UNCHANGED <<registry, target, initial_package, last, limit, page,
                   saved, failures, pc>>
    /\ UNCHANGED gvars

\* requests.get answers with rows: the rest of get_next_page, then
\* save_page_content
RequestSucceeds ==
    /\ pc = "request"
    /\ LET resp == Response(registry, last, limit)
           rows == IF last # 0 THEN Tail(resp.rows) ELSE resp.rows
       IN  /\ resp.rows # <<>>
           /\ IF rows = <<>>
              THEN \* page['rows'][-1] raises IndexError: backoff(), then
                   \* the loop ends because success is already True
                   /\ last' = last
                   /\ current' = backon(backoff(current, target), target)
              ELSE /\ last' = rows[Len(rows)]
                   /\ current' = backon(current, target)
           /\ page' = rows
           /\ saved' = save_page_content(saved, resp.offset, rows)
    /\ pc' = "loop"
    /\ UNCHANGED <<registry, target, initial_package, limit, failures>>
    /\ UNCHANGED gvars

\* while len(page['rows']) > 1 is false
Finish ==
    /\ pc = "loop"
    /\ Len(page) <= 1
    /\ pc' = "done"
    /\ UNCHANGED <<registry, target, current, initial_package, last, limit,
                   page, saved, failures>>
    /\ UNCHANGED gvars

DNext ==
    \/ EnterGetNextPage
    \/ RequestFails
    \/ RequestAnswersEmpty
    \/ RequestSucceeds
    \/ Finish

(***************************************************************************)
(* Any sequence of backoff() and backon() calls on a new NpmRegistry.      *)
(***************************************************************************)
BInit ==
    /\ registry = 0
    /\ target \in 1..MaxTarget
    /\ current = target
    /\ initial_package = 0
    /\ last = 0
    /\ limit = 0
    /\ page = <<>>
    /\ saved = <<>>
    /\ failures = 0
    /\ pc = "calls"

CallBackoff ==
    /\ pc = "calls"
    /\ current' = backoff(current, target)
    /\ UNCHANGED <<registry, target, initial_package, last, limit, page,
                   saved, failures, pc>>
    /\ UNCHANGED gvars

CallBackon ==
    /\ pc = "calls"
    /\ current' = backon(current, target)
    /\ UNCHANGED <<registry, target, initial_package, last, limit, page,
                   saved, failures, pc>>
    /\ UNCHANGED gvars

BNext == CallBackoff \/ CallBackon

(***************************************************************************)
(* Reference definitions for the properties below, stated on the          *)
(* dependency map itself and not through the pipeline: q depends on p,     *)
(* the transitive closure of that relation (Warshall's algorithm, one      *)
(* intermediate name at a time), the order of the names and the position   *)
(* of a key in a map.                                                      *)
(***************************************************************************)
NameIndex(n) == CHOOSE i \in 1..Len(Names) : Names[i] = n

\* n1 < n2, by code point
NameLess(a, b) == NameIndex(a) < NameIndex(b)

KeyPos(m, k) == CHOOSE i \in 1..Len(m) : m[i].key = k

SeqElems(s) == {s[i] : i \in 1..Len(s)}

\* the pairs <<q, p>> with p in the dependency list of q
DependencyEdges(dm) ==
    UNION {{<<dm[i].key, p>> : p \in SeqElems(dm[i].value)} : i \in 1..Len(dm)}

\* one round of Warshall's algorithm: the paths through the name n
Through(P, n) ==
    P \cup ({e[1] : e \in {x \in P : x[2] = n}} \X
            {e[2] : e \in {x \in P : x[1] = n}})

RECURSIVE Warshall(_, _)
Warshall(P, k) ==
    IF k > Len(Names) THEN P ELSE Warshall(Through(P, Names[k]), k + 1)

\* the pairs <<q, p>> with p reachable from q by one or more edges
DependsTransitively(dm) == Warshall(DependencyEdges(dm), 1)

\* with tc the closure: the packages q # p from which p is reachable by
\* one or more edges
TransitiveDependants(tc, p) == {q \in NameSet \ {p} : <<q, p>> \in tc}

\* with tc the closure: p and q lie on a common dependency cycle, or are
\* the same package
SameScc(tc, p, q) == p = q \/ (<<p, q>> \in tc /\ <<q, p>> \in tc)

\* the names listed as a dependency that are no key of the dependency map
UnknownNames(dm) == {e[2] : e \in DependencyEdges(dm)} \ Keys(dm)

Scenario1 ==
    <<[key |-> "A", value |-> <<"B">>], [key |-> "B", value |-> <<"C">>],
      [key |-> "C", value |-> <<"A">>], [key |-> "D", value |-> <<"A">>]>>

(***************************************************************************)
(* C1: after build_inverse_dependency_map and                              *)
(* build_transitive_dependant_map, every key p of the result maps to       *)
(* exactly the packages q # p from which p is reachable by one or more     *)
(* dependency edges, cycles included.                                      *)
(***************************************************************************)
C1_TransitiveMapIsReachability ==
    "transitive" \in written =>
        LET tc == DependsTransitively(dependency_map)
        IN  \A i \in 1..Len(transitive_map) :
                transitive_map[i].value =
                    TransitiveDependants(tc, transitive_map[i].key)

\* Scenario 1 (the cycle A -> B -> C -> A with D -> A) has been processed
C1_Witness ==
    /\ "transitive" \in written
    /\ dependency_map = Scenario1
    /\ Lookup(transitive_map, "A") = {"B", "C", "D"}
    /\ Lookup(transitive_map, "B") = {"A", "C", "D"}
    /\ Lookup(transitive_map, "C") = {"A", "B", "D"}

(***************************************************************************)
(* C2 as claimed: the transitive dependant count of every package x is at  *)
(* least the length of x's entry in the dependant map (the number          *)
(* --count-direct reports), also when a package lists itself.              *)
(***************************************************************************)
C2_CountAtLeastDirect ==
    "counts" \in written =>
        \A x \in Keys(dependant_map) :
            Lookup(transitive_ranked, x) >=
                Cardinality(Lookup(dependant_map, x))

(***************************************************************************)
(* C2 as amended: the transitive dependant count of every package x is at  *)
(* least the number of direct dependants of x other than x itself.         *)
(***************************************************************************)
C2_CountAtLeastDirectOthers ==
    "counts" \in written =>
        \A x \in Keys(dependant_map) :
            Lookup(transitive_ranked, x) >=
                Cardinality(Lookup(dependant_map, x) \ {x})

\* a package that lists itself and has another dependant has been counted
C2_Witness ==
    /\ "counts" \in written
    /\ \E x \in Keys(dependant_map) :
        /\ x \in Lookup(dependant_map, x)
        /\ Cardinality(Lookup(dependant_map, x)) = 2
        /\ Lookup(transitive_ranked, x) = 1

(***************************************************************************)
(* C3 as claimed: a name listed as a dependency that is no key of the      *)
(* dependency map is never a key of the dependant map, of the transitive   *)
(* dependant map or of the ranked counts.                                  *)
(***************************************************************************)
C3_UnknownNameNeverAKey ==
    \A u \in UnknownNames(dependency_map) :
        /\ u \notin Keys(dependant_map)
        /\ u \notin Keys(transitive_map)
        /\ u \notin Keys(direct_ranked)
        /\ u \notin Keys(transitive_ranked)

C5_EveryPackageReported ==
    /\ "transitive" \in written =>
            Keys(transitive_map) = Keys(dependency_map)
    /\ "counts" \in written =>
            Keys(transitive_ranked) = Keys(dependency_map)

(***************************************************************************)
(* C6 as claimed: in the written list of --count-direct and of             *)
(* --count-transitive every two adjacent entries have c1 > c2, or c1 = c2  *)
(* and n1 < n2.                                                            *)
(***************************************************************************)
RankedByCountThenName(r) ==
    \A i \in 1..(Len(r) - 1) :
        \/ r[i].value > r[i + 1].value
        \/ /\ r[i].value = r[i + 1].value
           /\ NameLess(r[i].key, r[i + 1].key)

RankedByCountThenInputOrder(r, input) ==
    \A i \in 1..(Len(r) - 1) :
        \/ r[i].value > r[i + 1].value
        \/ /\ r[i].value = r[i + 1].value
           /\ KeyPos(input, r[i].key) < KeyPos(input, r[i + 1].key)

C7_SccMembersAgree ==
    "transitive" \in written =>
        LET tc == DependsTransitively(dependency_map)
        IN  \A p, q \in Keys(transitive_map) :
                SameScc(tc, p, q) =>
                    /\ Lookup(transitive_map, p) \cup {p} =
                            Lookup(transitive_map, q) \cup {q}
                    /\ "counts" \in written =>
                            Lookup(transitive_ranked, p) =
                                Lookup(transitive_ranked, q)

\* two packages of one cycle, with a dependant outside it, have been counted
C7_Witness ==
    /\ "counts" \in written
    /\ LET tc == DependsTransitively(dependency_map)
       IN  \E p, q \in Keys(transitive_ranked), r \in NameSet :
            /\ p # q
            /\ SameScc(tc, p, q)
            /\ ~SameScc(tc, p, r)
            /\ r \in Lookup(transitive_map, p)
            /\ Lookup(transitive_ranked, p) = Lookup(transitive_ranked, q)

(***************************************************************************)
(* C8 as claimed: once backoff() has reduced                               *)
(* current_packages_per_request below the target, the limit sent with the  *)
(* next attempt of get_next_page is current_packages_per_request at that   *)
(* time.                                                                   *)
(***************************************************************************)
C8_RetryUsesReducedLimit ==
    (pc = "request" /\ current < target) => limit = current

(***************************************************************************)
(* C9 as claimed: after any sequence of backoff() and backon() calls,      *)
(* 1 <= current_packages_per_request <= target_packages_per_request.       *)
(***************************************************************************)
C9_WithinTarget == pc = "calls" => (1 <= current /\ current <= target)

(***************************************************************************)
(* C9 as amended: after any sequence of backoff() and backon() calls,      *)
(* 1 <= current_packages_per_request <= max(3, target_packages_per_request)*)
(* and so <= target_packages_per_request for every target of 3 or more.    *)
(***************************************************************************)
C9_WithinTargetOrFloor ==
    pc = "calls" => (1 <= current /\ current <= Max(3, target))

\* backoff() has halved the page size of 40 and backon() has raised it
\* again, short of the target
C9_Witness ==
    /\ pc = "calls"
    /\ target = 40
    /\ current = 24

(***************************************************************************)
(* C10 as claimed: with no failed request and initial_package = '', the    *)
(* rows of the saved pages are the packages of the registry, each once,    *)
(* in registry order, when download_package_index has returned.            *)
(***************************************************************************)
RECURSIVE SavedRows(_)
SavedRows(files) ==
    IF files = <<>> THEN <<>>
    ELSE Head(files).rows \o SavedRows(Tail(files))

C10_DownloadsWholeRegistry ==
    (pc = "done" /\ failures = 0 /\ initial_package = 0) =>
        SavedRows(saved) = [i \in 1..registry |-> i]

(***************************************************************************)
(* Specifications: the pipeline of main.py, one download, and the          *)
(* page-size control alone.                                                *)
(***************************************************************************)
Init == GInit /\ DIdle

Next ==
    \/ BuildDependantMap
    \/ BuildTransitiveDependantMap
    \/ CountDirect
    \/ CountTransitive

Spec == Init /\ [][Next]_vars

DownloadInit == GIdle /\ DInit

DownloadSpec == DownloadInit /\ [][DNext]_vars

BackoffInit == GIdle /\ BInit

BackoffSpec == BackoffInit /\ [][BNext]_vars

=============================================================================
